---- MODULE Spec2Model ----
(***************************************************************************)
(* Model of the backup/restore reconciliation routine syncToR2             *)
(* (src/src/gateway/sync.ts).                                              *)
(*                                                                         *)
(* The sandbox filesystem and the mounted remote store are partial maps    *)
(* from paths (tuples of path components) to file contents (tuples of      *)
(* one-character strings).  Every awaited call of the routine is one step  *)
(* of a process; the position of a process is its pc.                      *)
(***************************************************************************)
EXTENDS Integers, Sequences, FiniteSets, TLC

VARIABLES env, lfs, rfs, rdirs, now, edits, syncs, faults, st

vars == <<env, lfs, rfs, rdirs, now, edits, syncs, faults, st>>

-----------------------------------------------------------------------------
(* Bounds of the model *)

MaxSyncs == 2

MaxEdits == 1

MaxClock == 3

MaxFaults == 1

(* Timeouts passed to waitForProcess *)

ProbeTimeout == 5000

BulkTimeout == 30000

(* Exactly one invocation runs at a time under Spec; the second process    *)
(* identity exists for callers that do not serialize their invocations.    *)
Procs == {1, 2}

-----------------------------------------------------------------------------
(* Paths and file contents *)

CONFIG_DIR == <<".clawdbot">>

WORKSPACE_DIR == <<"clawd">>

SKILLS_DIR == <<"clawd", "skills">>

LOCAL_CONFIG == <<".clawdbot", "clawdbot.json">>

LOCAL_MARKER == <<".clawdbot", ".last-sync">>

LOCAL_LOG == <<".clawdbot", "gateway.log">>

LOCAL_USER == <<"clawd", "USER.md">>

LOCAL_SOUL == <<"clawd", "SOUL.md">>

LOCAL_MEMORY == <<"clawd", "MEMORY.md">>

LOCAL_SKILL == <<"clawd", "skills", "tool.md">>

LOCAL_GIT == <<"clawd", ".git", "HEAD">>

LOCAL_MODULE == <<"clawd", "node_modules", "dep.js">>

R2_MARKER == <<".last-sync">>

R2_CONFIG_DIR == <<"clawdbot">>

R2_SKILLS_DIR == <<"skills">>

R2_WORKSPACE_DIR == <<"workspace-core">>

Digits == {"0", "1", "2", "3", "4", "5", "6", "7", "8", "9"}

DigitStr == <<"0", "1", "2", "3", "4", "5", "6", "7", "8", "9">>

Whitespace == {" ", "\n", "\t"}

DatePrefix == <<"2", "0", "2", "6", "-", "1", "1", "-", "0", "6">>

(* Output of `date -Iseconds` at second t, as written to the marker file *)
Timestamp(t) == DatePrefix \o <<"T", DigitStr[t + 1], "\n">>

EmptyFile == <<>>

MalformedMarker == <<"n", "e", "v", "e", "r", "\n">>

LocalData == <<"L">>

RemoteData == <<"R">>

EditedData == <<"E">>

NoFiles == [p \in {} |-> <<>>]

-----------------------------------------------------------------------------
(* Pure helpers *)

IsPrefix(pre, path) ==
    /\ Len(pre) <= Len(path)
    /\ SubSeq(path, 1, Len(pre)) = pre

Rel(pre, path) == SubSeq(path, Len(pre) + 1, Len(path))

Exists(fs, path) == path \in DOMAIN fs

Restrict(fs, P) == [p \in P |-> fs[p]]

(* Files of fs below directory dir, keyed by their path relative to dir *)
Tree(fs, dir) ==
    [r \in {Rel(dir, p) : p \in {q \in DOMAIN fs : IsPrefix(dir, q)}} |-> fs[dir \o r]]

RECURSIVE TrimLeft(_)
TrimLeft(s) ==
    IF s # <<>> /\ Head(s) \in Whitespace THEN TrimLeft(Tail(s)) ELSE s

RECURSIVE TrimRight(_)
TrimRight(s) ==
    IF s # <<>> /\ s[Len(s)] \in Whitespace
    THEN TrimRight(SubSeq(s, 1, Len(s) - 1))
    ELSE s

(* String.prototype.trim *)
Trim(s) == TrimRight(TrimLeft(s))

(* lastSync.match(/^\d{4}-\d{2}-\d{2}/) *)
MatchesDatePrefix(s) ==
    /\ Len(s) >= 10
    /\ \A k \in {1, 2, 3, 4, 6, 7, 9, 10} : s[k] \in Digits
    /\ s[5] = "-"
    /\ s[8] = "-"

(* stdout of `cat path` *)
CatStdout(fs, path) == IF Exists(fs, path) THEN fs[path] ELSE <<>>

(* stdout of `test -f path && echo word` *)
TestStdout(fs, path, word) == IF Exists(fs, path) THEN word ELSE ""

(* stdout?.includes(word), for the outputs TestStdout can produce *)
Includes(out, word) == out = word

(* !value of a credential field: undefined and '' are falsy *)
Falsy(v) == v \in {"undefined", ""}

-----------------------------------------------------------------------------
(* rsync -r --no-times --delete [--exclude=...] src/ dst/                  *)
(* Files of the source tree that are not excluded replace the destination  *)
(* tree; destination files that are excluded are protected from deletion.  *)

(* The --exclude patterns of one rsync: directories anchored at the root   *)
(* of the transfer ('/name/', '/name/**') and file-name suffixes ('*.ext') *)
NoExclude == [dirs |-> {}, exts |-> {}]

FileExt(name) ==
    CASE name = "gateway.log" -> "log"
      [] name = "clawdbot.json" -> "json"
      [] name \in {"USER.md", "SOUL.md", "MEMORY.md", "tool.md"} -> "md"
      [] name = "dep.js" -> "js"
      [] OTHER -> ""

(* Faulty variant: '*.json' is written where '*.lock' is meant *)
ConfigExcludeJson == [dirs |-> {}, exts |-> {"json", "log", "tmp"}]

(* --exclude='*.lock' --exclude='*.log' --exclude='*.tmp' *)
ConfigExclude == [dirs |-> {}, exts |-> {"lock", "log", "tmp"}]

(* Faulty variant: the workspace mirror without the /skills/ patterns *)
WorkspaceExcludeNoSkills == [dirs |-> {".git", "node_modules"}, exts |-> {}]

(* --exclude='/.git/' --exclude='/.git/**' --exclude='/skills/'            *)
(* --exclude='/skills/**' --exclude='/node_modules/'                       *)
(* --exclude='/node_modules/**'                                            *)
WorkspaceExclude == [dirs |-> {".git", "skills", "node_modules"}, exts |-> {}]

(* The relative path r matches one of the patterns *)
Excluded(ex, r) ==
    \/ Len(r) >= 2 /\ r[1] \in ex.dirs
    \/ \E k \in 1..Len(r) : FileExt(r[k]) \in ex.exts

(* Faulty variant: --delete reaches the files outside the destination     *)
(* directory                                                               *)
MirrorUnscoped(src, sdir, dst, ddir, ex) ==
    LET sent == {r \in DOMAIN Tree(src, sdir) : ~Excluded(ex, r)}
        copied == {ddir \o r : r \in sent}
        kept == {q \in DOMAIN dst : IsPrefix(ddir, q) /\ Excluded(ex, Rel(ddir, q))}
    IN  [q \in kept \cup copied |->
            IF q \in copied THEN src[sdir \o Rel(ddir, q)] ELSE dst[q]]

(* Faulty variant: rsync without --delete *)
MirrorNoDelete(src, sdir, dst, ddir, ex) ==
    LET sent == {r \in DOMAIN Tree(src, sdir) : ~Excluded(ex, r)}
        copied == {ddir \o r : r \in sent}
    IN  [q \in DOMAIN dst \cup copied |->
            IF q \in copied THEN src[sdir \o Rel(ddir, q)] ELSE dst[q]]

(* Faulty variant: rsync --ignore-existing, a file the destination has is  *)
(* not updated                                                             *)
MirrorIgnoreExisting(src, sdir, dst, ddir, ex) ==
    LET sent == {r \in DOMAIN Tree(src, sdir) : ~Excluded(ex, r)}
        copied == {ddir \o r : r \in sent}
        kept == {q \in DOMAIN dst : ~IsPrefix(ddir, q) \/ Excluded(ex, Rel(ddir, q))}
    IN  [q \in kept \cup copied |->
            IF q \in copied /\ q \notin DOMAIN dst
            THEN src[sdir \o Rel(ddir, q)] ELSE dst[q]]

Mirror(src, sdir, dst, ddir, ex) ==
    LET sent == {r \in DOMAIN Tree(src, sdir) : ~Excluded(ex, r)}
        copied == {ddir \o r : r \in sent}
        kept == {q \in DOMAIN dst : ~IsPrefix(ddir, q) \/ Excluded(ex, Rel(ddir, q))}
    IN  [q \in kept \cup copied |->
            IF q \in copied THEN src[sdir \o Rel(ddir, q)] ELSE dst[q]]

(* Faulty variant: cp -n, an existing destination is not overwritten *)
CopyNoClobber(src, spath, dst, dpath) ==
    [q \in DOMAIN dst \cup {dpath} |->
        IF q = dpath /\ q \notin DOMAIN dst THEN src[spath] ELSE dst[q]]

(* cp -f src dst (the source exists) *)
Copy(src, spath, dst, dpath) ==
    [q \in DOMAIN dst \cup {dpath} |-> IF q = dpath THEN src[spath] ELSE dst[q]]

(* Faulty variant: the mirrors run without the [ -d ] tests, a missing     *)
(* remote directory being read as an empty one                             *)
RestoreEffectUnguarded(l, r, dirs, n) ==
    LET l1 == IF n >= 1
              THEN Mirror(r, R2_CONFIG_DIR, l, CONFIG_DIR, NoExclude) ELSE l
        l2 == IF n >= 2
              THEN Mirror(r, R2_SKILLS_DIR, l1, SKILLS_DIR, NoExclude) ELSE l1
        l3 == IF n >= 3
              THEN Mirror(r, R2_WORKSPACE_DIR, l2, WORKSPACE_DIR, WorkspaceExclude)
              ELSE l2
    IN  IF n >= 4 THEN Copy(r, R2_MARKER, l3, LOCAL_MARKER) ELSE l3

(* restoreCmd: local filesystem after the first n of its four steps        *)
(* (config mirror, skills mirror, workspace mirror, marker copy) have      *)
(* run; a mirror whose remote directory does not exist is skipped.         *)
RestoreEffect(l, r, dirs, n) ==
    LET l1 == IF n >= 1 /\ "clawdbot" \in dirs
              THEN Mirror(r, R2_CONFIG_DIR, l, CONFIG_DIR, NoExclude) ELSE l
        l2 == IF n >= 2 /\ "skills" \in dirs
              THEN Mirror(r, R2_SKILLS_DIR, l1, SKILLS_DIR, NoExclude) ELSE l1
        l3 == IF n >= 3 /\ "workspace-core" \in dirs
              THEN Mirror(r, R2_WORKSPACE_DIR, l2, WORKSPACE_DIR, WorkspaceExclude)
              ELSE l2
    IN  IF n >= 4 THEN Copy(r, R2_MARKER, l3, LOCAL_MARKER) ELSE l3

(* The remote directories mirrored by the first n steps of restoreCmd:     *)
(* if [ -d "$REMOTE" ]; then rsync ...; fi                                  *)
RestoreMirrors(dirs, n) ==
    {d \in dirs : \/ d = "clawdbot" /\ n >= 1
                  \/ d = "skills" /\ n >= 2
                  \/ d = "workspace-core" /\ n >= 3}

(* Step k of restoreCmd runs a command that can exit non-zero *)
RestoreStepRuns(dirs, k) ==
    CASE k = 1 -> "clawdbot" \in dirs
      [] k = 2 -> "skills" \in dirs
      [] k = 3 -> "workspace-core" \in dirs
      [] OTHER -> TRUE

(* Faulty variant: the steps are chained with ; so the marker is written   *)
(* whatever the mirrors did                                                *)
PushEffectUnchained(l, r, n, t) ==
    LET r1 == IF n >= 1
              THEN Mirror(l, CONFIG_DIR, r, R2_CONFIG_DIR, ConfigExclude) ELSE r
        r2 == IF n >= 2
              THEN Mirror(l, SKILLS_DIR, r1, R2_SKILLS_DIR, NoExclude) ELSE r1
        r3 == IF n >= 3
              THEN Mirror(l, WORKSPACE_DIR, r2, R2_WORKSPACE_DIR, WorkspaceExclude)
              ELSE r2
    IN  [q \in DOMAIN r3 \cup {R2_MARKER} |->
            IF q = R2_MARKER THEN Timestamp(t) ELSE r3[q]]

(* syncCmd: remote store after the first n of its four &&-chained steps    *)
(* (config mirror, skills mirror, workspace mirror, date > marker) have    *)
(* succeeded, the marker being written at second t.                        *)
PushEffect(l, r, n, t) ==
    LET r1 == IF n >= 1
              THEN Mirror(l, CONFIG_DIR, r, R2_CONFIG_DIR, ConfigExclude) ELSE r
        r2 == IF n >= 2
              THEN Mirror(l, SKILLS_DIR, r1, R2_SKILLS_DIR, NoExclude) ELSE r1
        r3 == IF n >= 3
              THEN Mirror(l, WORKSPACE_DIR, r2, R2_WORKSPACE_DIR, WorkspaceExclude)
              ELSE r2
    IN  IF n >= 4
        THEN [q \in DOMAIN r3 \cup {R2_MARKER} |->
                 IF q = R2_MARKER THEN Timestamp(t) ELSE r3[q]]
        ELSE r3

(* rsync creates a missing destination directory *)
PushDirs(dirs, n) ==
    dirs \cup (IF n >= 1 THEN {"clawdbot"} ELSE {})
         \cup (IF n >= 2 THEN {"skills"} ELSE {})
         \cup (IF n >= 3 THEN {"workspace-core"} ELSE {})

(* Faulty variant: the config mirror of restoreCmd runs from the container *)
(* to the mount                                                            *)
RestoreRemoteReversed(l, r, dirs, n) ==
    IF n >= 1 /\ "clawdbot" \in dirs
    THEN Mirror(l, CONFIG_DIR, r, R2_CONFIG_DIR, NoExclude) ELSE r

(* restoreCmd writes under /root only: the mount is the source of its      *)
(* mirrors and of its copy, so the remote store is left as it was          *)
RestoreRemote(l, r, dirs, n) == r

(* Faulty variant: the skills mirror of syncCmd removes the files it has   *)
(* sent (--remove-source-files)                                            *)
PushLocalRemoveSent(l, r, n) ==
    IF n >= 2 THEN Restrict(l, {q \in DOMAIN l : ~IsPrefix(SKILLS_DIR, q)}) ELSE l

(* syncCmd writes under the mount only: /root is the source of its        *)
(* mirrors, so the local filesystem is left as it was                      *)
PushLocal(l, r, n) == l

-----------------------------------------------------------------------------
(* State of one invocation of syncToR2 *)

CredFields == {"R2_ACCESS_KEY_ID", "R2_SECRET_ACCESS_KEY", "CF_ACCOUNT_ID"}

CredValues == {"undefined", "", "key"}

NoResult == [pending |-> TRUE]

(* What really existed when each probe ran (history) *)
NoTruth == [r2 |-> FALSE, local |-> FALSE, user |-> FALSE, soul |-> FALSE,
            memory |-> FALSE]

(* The invocation that returned just before this one, when it returned     *)
(* success: the timestamp its push wrote (-1 if none), the steps of its    *)
(* push that succeeded, whether a restore was started, whether any         *)
(* collaborator misbehaved, the count of local edits at its entry and the  *)
(* local filesystem at its return (history).                               *)
NoPrev ==
    [success |-> FALSE, lastSync |-> <<>>, wrote |-> -1, pushSteps |-> 0,
     restored |-> FALSE, clean |-> FALSE, edits |-> 0, lfs |-> NoFiles]

(* The locals of syncToR2 (pc, mounted as mountResult, r2HasSync ..        *)
(* localHasMemory, the push process's logs, the returned result) and the   *)
(* history of the invocation: the calls of sandbox.startProcess (cmds),    *)
(* what the commands saw and did, and the filesystems at entry (lfs0,      *)
(* rfs0, rdirs0) and at return (lfs1, rfs1, rdirs1), the counts of faults  *)
(* and local edits at entry, the remote directories the restore mirrored,  *)
(* the preceding invocation (prev), and whether another invocation was     *)
(* running at some moment of this one (overlapped).                        *)
IdleState ==
    [pc |-> "idle", mountCalled |-> FALSE, mountResult |-> "none",
     r2HasSync |-> FALSE, localHasSync |-> FALSE, localHasUser |-> FALSE,
     localHasSoul |-> FALSE, localHasMemory |-> FALSE,
     result |-> NoResult, cmds |-> <<>>,
     truth |-> NoTruth,
     restoreAwaited |-> FALSE, restoreSteps |-> 0,
     guardSaw |-> "not run", guardFault |-> "none",
     pushAwaited |-> FALSE, pushSteps |-> 0,
     pushLogs |-> [stdout |-> "", stderr |-> ""], wrote |-> -1,
     confirmRead |-> FALSE, markerSeen |-> [exists |-> FALSE, data |-> <<>>],
     lfs0 |-> NoFiles, rfs0 |-> NoFiles, rdirs0 |-> {},
     lfs1 |-> NoFiles, rfs1 |-> NoFiles, rdirs1 |-> {},
     faults0 |-> 0, edits0 |-> 0, mirrored |-> {}, prev |-> NoPrev,
     overlapped |-> FALSE]

Merge(s, chg) == [f \in DOMAIN s |-> IF f \in DOMAIN chg THEN chg[f] ELSE s[f]]

Cmd(name, timeout) == [cmd |-> name, timeout |-> timeout]

(* err instanceof Error ? err.message : 'Unknown error' *)
ErrMessage(fault) ==
    CASE fault = "start" -> "startProcess failed"
      [] fault = "wait" -> "process timed out"
      [] fault = "logs" -> "getLogs failed"
      [] OTHER -> "Unknown error"

(* A probe-like command: startProcess, waitForProcess or getLogs may raise *)
ProbeFaults == {"none", "start", "wait", "logs"}

(* mountR2Storage resolves to a boolean, or rejects *)
MountOutcomes == {"true", "false", "throws"}

(* waitForProcess(proc, timeout) raises when the timeout expires; the exit *)
(* status of the command is not reported by the wait.                      *)
WaitRaises(timedOut, exitedNonZero) == timedOut

(* Faulty variant: the account identifier is not checked *)
CredentialsMissingNoAccount(e) ==
    \/ Falsy(e["R2_ACCESS_KEY_ID"])
    \/ Falsy(e["R2_SECRET_ACCESS_KEY"])

(* !env.R2_ACCESS_KEY_ID || !env.R2_SECRET_ACCESS_KEY || !env.CF_ACCOUNT_ID *)
CredentialsMissing(e) ==
    \/ Falsy(e["R2_ACCESS_KEY_ID"])
    \/ Falsy(e["R2_SECRET_ACCESS_KEY"])
    \/ Falsy(e["CF_ACCOUNT_ID"])

(* Faulty variant: the result of the mount is ignored *)
MountFailedIgnored(mounted) == FALSE

(* !mounted *)
MountFailed(mounted) == mounted = "false"

(* Faulty variant: MEMORY.md is left out of the restore condition *)
NeedsRestoreNoMemory(s) ==
    s.r2HasSync /\ (~s.localHasSync \/ ~s.localHasUser \/ ~s.localHasSoul)

(* Faulty variant: the remote marker is left out of the restore condition *)
NeedsRestoreNoRemote(s) ==
    ~s.localHasSync \/ ~s.localHasUser \/ ~s.localHasSoul \/ ~s.localHasMemory

(* r2HasSync && (!localHasSync || !localHasUser || !localHasSoul || !localHasMemory) *)
NeedsRestore(s) ==
    s.r2HasSync /\ (~s.localHasSync \/ ~s.localHasUser \/ ~s.localHasSoul
                    \/ ~s.localHasMemory)

(* Faulty variant: the output of the sanity check is not looked at *)
GuardPassesAlways(stdout) == TRUE

(* checkLogs.stdout?.includes('ok') *)
GuardPasses(stdout) == Includes(stdout, "ok")

(* Faulty variant: one classification for both failures of the check *)
GuardErrorSame(fault) == "Sync aborted: source missing clawdbot.json"

(* Faulty variant: a timeout of the check is read as a missing file *)
GuardErrorTimeout(fault) ==
    IF fault \in {"start", "logs"} THEN "Failed to verify source files"
    ELSE "Sync aborted: source missing clawdbot.json"

(* The two failures of the sanity check: the catch clause, and the check   *)
(* that ran without reporting the file                                     *)
GuardError(fault) ==
    IF fault # "none" THEN "Failed to verify source files"
    ELSE "Sync aborted: source missing clawdbot.json"

(* Faulty variant: the marker read is not looked at *)
MarkerUnchecked(lastSync) == TRUE

(* Faulty variant: any non-empty marker confirms the push *)
MarkerNonEmpty(lastSync) == lastSync # <<>>

(* lastSync && lastSync.match(/^\d{4}-\d{2}-\d{2}/) *)
MarkerConfirms(lastSync) == lastSync # <<>> /\ MatchesDatePrefix(lastSync)

(* logs.stderr || logs.stdout || 'No timestamp file created' *)
FailureDetails(logs) ==
    IF logs.stderr # "" THEN logs.stderr
    ELSE IF logs.stdout # "" THEN logs.stdout
    ELSE "No timestamp file created"

(* return res, the filesystems being l, r, d at that moment *)
Return(s, res, l, r, d) ==
    Merge(s, [pc |-> "done", result |-> res, lfs1 |-> l, rfs1 |-> r, rdirs1 |-> d])

-----------------------------------------------------------------------------
(* Initial filesystem states *)

FullLocal ==
    [p \in {LOCAL_CONFIG, LOCAL_MARKER, LOCAL_LOG, LOCAL_USER, LOCAL_SOUL,
            LOCAL_MEMORY, LOCAL_SKILL, LOCAL_GIT, LOCAL_MODULE} |->
        IF p = LOCAL_MARKER THEN Timestamp(0) ELSE LocalData]

InitMissing ==
    { {}, {LOCAL_MARKER}, {LOCAL_USER}, {LOCAL_SOUL}, {LOCAL_MEMORY},
      {LOCAL_CONFIG}, DOMAIN FullLocal }

InitLocal == {Restrict(FullLocal, DOMAIN FullLocal \ m) : m \in InitMissing}

FullBackup ==
    [p \in {<<"clawdbot", "clawdbot.json">>, <<"skills", "tool.md">>,
            <<"workspace-core", "USER.md">>, <<"workspace-core", "SOUL.md">>,
            <<"workspace-core", "MEMORY.md">>} |-> RemoteData]

WithMarker(r, content) ==
    [q \in DOMAIN r \cup {R2_MARKER} |-> IF q = R2_MARKER THEN content ELSE r[q]]

AllDirs == {"clawdbot", "skills", "workspace-core"}

(* Remote store states: never synced, complete backups with a well-formed, *)
(* malformed or empty marker, a backup without the config file, and a      *)
(* skills-only backup.                                                     *)
InitRemote ==
    { [fs |-> NoFiles, dirs |-> {}],
      [fs |-> WithMarker(FullBackup, Timestamp(0)), dirs |-> AllDirs],
      [fs |-> WithMarker(FullBackup, MalformedMarker), dirs |-> AllDirs],
      [fs |-> WithMarker(FullBackup, EmptyFile), dirs |-> AllDirs],
      [fs |-> WithMarker(Restrict(FullBackup,
                  DOMAIN FullBackup \ {<<"clawdbot", "clawdbot.json">>}),
                  Timestamp(0)),
       dirs |-> AllDirs],
      [fs |-> WithMarker(Restrict(FullBackup, {<<"skills", "tool.md">>}),
                  Timestamp(0)),
       dirs |-> {"skills"}] }

(* The worker's environment bindings are fixed for a deployment *)
Init ==
    /\ env \in [CredFields -> CredValues]
    /\ lfs \in InitLocal
    /\ \E r \in InitRemote : rfs = r.fs /\ rdirs = r.dirs
    /\ now = 1
    /\ edits = 0
    /\ syncs = 0
    /\ faults = 0
    /\ st = [i \in Procs |-> IdleState]

-----------------------------------------------------------------------------
(* Steps of syncToR2, for the invocation run by process i *)

(* Faulty variant: an invocation counts as returned only when no other     *)
(* invocation is running either (a lock around syncToR2)                   *)
QuietExclusive(i) == \A j \in Procs : st[j].pc \in {"idle", "done", "threw"}

(* No invocation is running for caller i: syncToR2 can be entered *)
Quiet(i) == st[i].pc \in {"idle", "done", "threw"}

(* A collaborator misbehaves (a call raises, a command exits non-zero or   *)
(* is cut off, the mount fails) at most MaxFaults times in a behaviour.    *)
Faulty(bad) ==
    /\ bad => faults < MaxFaults
    /\ faults' = IF bad THEN faults + 1 ELSE faults

(* What the next invocation remembers of the invocation s that returned *)
Summary(s) ==
    IF s.pc = "done" /\ s.result.success
    THEN [success |-> TRUE, lastSync |-> s.result.lastSync, wrote |-> s.wrote,
          pushSteps |-> s.pushSteps,
          restored |-> \E k \in 1..Len(s.cmds) : s.cmds[k].cmd = "restore",
          clean |-> faults = s.faults0, edits |-> s.edits0, lfs |-> s.lfs1]
    ELSE NoPrev

(* Entry and credential check *)
Start(i) ==
    /\ Quiet(i)
    /\ syncs < MaxSyncs
    /\ syncs' = syncs + 1
    /\ LET s0 == Merge(IdleState, [lfs0 |-> lfs, rfs0 |-> rfs, rdirs0 |-> rdirs,
                                   faults0 |-> faults, edits0 |-> edits,
                                   prev |-> Summary(st[i]),
                                   overlapped |-> \E j \in Procs \ {i} : ~Quiet(j)])
       IN  st' = [j \in Procs |->
                     IF j # i
                     THEN IF Quiet(j) THEN st[j]
                          ELSE Merge(st[j], [overlapped |-> TRUE])
                     ELSE IF CredentialsMissing(env)
                     THEN Return(s0, [success |-> FALSE,
                                      error |-> "R2 storage is not configured"],
                                 lfs, rfs, rdirs)
                     ELSE Merge(s0, [pc |-> "mount"])]
    /\ UNCHANGED <<env, lfs, rfs, rdirs, now, edits, faults>>

(* await mountR2Storage(sandbox, env) *)
Mount(i) ==
    /\ st[i].pc = "mount"
    /\ \E mounted \in MountOutcomes :
         LET s1 == Merge(st[i], [mountCalled |-> TRUE, mountResult |-> mounted])
         IN  /\ Faulty(mounted # "true")
             /\ st' = [st EXCEPT ![i] =
                          IF mounted = "throws" THEN Merge(s1, [pc |-> "threw"])
                          ELSE IF MountFailed(mounted)
                          THEN Return(s1, [success |-> FALSE,
                                           error |-> "Failed to mount R2 storage"],
                                      lfs, rfs, rdirs)
                          ELSE Merge(s1, [pc |-> "probeR2"])]
    /\ UNCHANGED <<env, lfs, rfs, rdirs, now, edits, syncs>>

(* Faulty variant: a probe that raised counts as a file found *)
ProbeValueFailOpen(fs, path, word, fault) ==
    IF fault = "none" THEN Includes(TestStdout(fs, path, word), word) ELSE TRUE

(* try { startProcess(test -f path && echo word); waitForProcess; getLogs; *)
(*       flag = !!stdout?.includes(word) } catch { flag = false }          *)
ProbeValue(fs, path, word, fault) ==
    IF fault = "none" THEN Includes(TestStdout(fs, path, word), word) ELSE FALSE

(* Faulty variant: the probe command is started a second time (a retry) *)
ProbedRetry(s, name) ==
    [cmds |-> Append(Append(s.cmds, Cmd(name, ProbeTimeout)),
                     Cmd(name, ProbeTimeout))]

(* Faulty variant: the logs of a probe are fetched by a further command *)
ProbedLogged(s, name) ==
    [cmds |-> Append(Append(s.cmds, Cmd(name, ProbeTimeout)),
                     Cmd("logs", ProbeTimeout))]

(* The call of sandbox.startProcess made by a probe *)
Probed(s, name) == [cmds |-> Append(s.cmds, Cmd(name, ProbeTimeout))]

ProbeR2(i) ==
    /\ st[i].pc = "probeR2"
    /\ \E fault \in ProbeFaults :
         /\ Faulty(fault # "none")
         /\ st' = [st EXCEPT ![i] =
                      Merge(Merge(@, Probed(@, "r2")),
                            [pc |-> "probeLocal",
                             r2HasSync |-> ProbeValue(rfs, R2_MARKER, "r2", fault),
                             truth |-> [@.truth EXCEPT !.r2 = Exists(rfs, R2_MARKER)]])]
    /\ UNCHANGED <<env, lfs, rfs, rdirs, now, edits, syncs>>

ProbeLocal(i) ==
    /\ st[i].pc = "probeLocal"
    /\ \E fault \in ProbeFaults :
         /\ Faulty(fault # "none")
         /\ st' = [st EXCEPT ![i] =
                      Merge(Merge(@, Probed(@, "local")),
                            [pc |-> "probeUser",
                             localHasSync |-> ProbeValue(lfs, LOCAL_MARKER, "local", fault),
                             truth |-> [@.truth EXCEPT !.local = Exists(lfs, LOCAL_MARKER)]])]
    /\ UNCHANGED <<env, lfs, rfs, rdirs, now, edits, syncs>>

ProbeUser(i) ==
    /\ st[i].pc = "probeUser"
    /\ \E fault \in ProbeFaults :
         /\ Faulty(fault # "none")
         /\ st' = [st EXCEPT ![i] =
                      Merge(Merge(@, Probed(@, "user")),
                            [pc |-> "probeSoul",
                             localHasUser |-> ProbeValue(lfs, LOCAL_USER, "user", fault),
                             truth |-> [@.truth EXCEPT !.user = Exists(lfs, LOCAL_USER)]])]
    /\ UNCHANGED <<env, lfs, rfs, rdirs, now, edits, syncs>>

ProbeSoul(i) ==
    /\ st[i].pc = "probeSoul"
    /\ \E fault \in ProbeFaults :
         /\ Faulty(fault # "none")
         /\ st' = [st EXCEPT ![i] =
                      Merge(Merge(@, Probed(@, "soul")),
                            [pc |-> "probeMemory",
                             localHasSoul |-> ProbeValue(lfs, LOCAL_SOUL, "soul", fault),
                             truth |-> [@.truth EXCEPT !.soul = Exists(lfs, LOCAL_SOUL)]])]
    /\ UNCHANGED <<env, lfs, rfs, rdirs, now, edits, syncs>>

(* The last probe, followed by the restore decision *)
ProbeMemory(i) ==
    /\ st[i].pc = "probeMemory"
    /\ \E fault \in ProbeFaults :
         LET s1 == Merge(Merge(st[i], Probed(st[i], "memory")),
                         [localHasMemory |-> ProbeValue(lfs, LOCAL_MEMORY, "memory", fault),
                          truth |-> [st[i].truth EXCEPT
                                        !.memory = Exists(lfs, LOCAL_MEMORY)]])
         IN  /\ Faulty(fault # "none")
             /\ st' = [st EXCEPT ![i] =
                          Merge(s1, [pc |-> IF NeedsRestore(s1) THEN "restore"
                                            ELSE "guard"])]
    /\ UNCHANGED <<env, lfs, rfs, rdirs, now, edits, syncs>>

(* await sandbox.startProcess(restoreCmd) *)
RestoreStart(i) ==
    /\ st[i].pc = "restore"
    /\ \E fault \in {"none", "start"} :
         LET s1 == Merge(st[i], [cmds |-> Append(st[i].cmds,
                                                 Cmd("restore", BulkTimeout))])
         IN  /\ Faulty(fault # "none")
             /\ st' = [st EXCEPT ![i] =
                          IF fault = "none" THEN Merge(s1, [pc |-> "restoreWait"])
                          ELSE Return(s1, [success |-> FALSE,
                                           error |-> "Restore failed",
                                           details |-> ErrMessage(fault)],
                                      lfs, rfs, rdirs)]
    /\ UNCHANGED <<env, lfs, rfs, rdirs, now, edits, syncs>>

(* restoreCmd runs; await waitForProcess(restoreProc, 30000).  The command *)
(* stops after n steps: n = 4 is a complete run, otherwise step n + 1      *)
(* exited non-zero (set -e) or was cut off by the timeout.  The wait can   *)
(* time out on a command that has finished: the process status the wait    *)
(* polls is not reliable (comment at line 134).                            *)
RestoreWait(i) ==
    /\ st[i].pc = "restoreWait"
    /\ \E n \in 0..4, timedOut \in BOOLEAN :
         /\ n = 4 => Exists(rfs, R2_MARKER)
         /\ n < 4 => RestoreStepRuns(rdirs, n + 1)
         /\ Faulty(timedOut \/ (n < 4 /\ ~(n = 3 /\ ~Exists(rfs, R2_MARKER))))
         /\ lfs' = RestoreEffect(lfs, rfs, rdirs, n)
         /\ rfs' = RestoreRemote(lfs, rfs, rdirs, n)
         /\ LET s1 == Merge(st[i], [restoreSteps |-> n,
                                    mirrored |-> RestoreMirrors(rdirs, n)])
            IN  st' = [st EXCEPT ![i] =
                          IF WaitRaises(timedOut, n < 4)
                          THEN Return(s1, [success |-> FALSE,
                                           error |-> "Restore failed",
                                           details |-> ErrMessage("wait")],
                                      lfs', rfs', rdirs)
                          ELSE Merge(s1, [pc |-> "guard",
                                          restoreAwaited |-> TRUE])]
    /\ UNCHANGED <<env, rdirs, now, edits, syncs>>

(* Sanity check: test -f /root/.clawdbot/clawdbot.json && echo "ok" *)
Guard(i) ==
    /\ st[i].pc = "guard"
    /\ \E fault \in ProbeFaults :
         LET s1 == Merge(st[i],
                      [cmds |-> Append(st[i].cmds, Cmd("guard", ProbeTimeout)),
                       guardFault |-> fault,
                       guardSaw |-> IF Exists(lfs, LOCAL_CONFIG) THEN "present"
                                    ELSE "missing"])
         IN  /\ Faulty(fault # "none")
             /\ st' = [st EXCEPT ![i] =
                          IF fault # "none"
                          THEN Return(s1, [success |-> FALSE,
                                           error |-> GuardError(fault),
                                           details |-> ErrMessage(fault)],
                                      lfs, rfs, rdirs)
                          ELSE IF ~GuardPasses(TestStdout(lfs, LOCAL_CONFIG, "ok"))
                          THEN Return(s1,
                                 [success |-> FALSE,
                                  error |-> GuardError(fault),
                                  details |-> "The local config directory is missing critical files."],
                                 lfs, rfs, rdirs)
                          ELSE Merge(s1, [pc |-> "push"])]
    /\ UNCHANGED <<env, lfs, rfs, rdirs, now, edits, syncs>>

(* await sandbox.startProcess(syncCmd) *)
PushStart(i) ==
    /\ st[i].pc = "push"
    /\ \E fault \in {"none", "start"} :
         LET s1 == Merge(st[i], [cmds |-> Append(st[i].cmds,
                                                 Cmd("push", BulkTimeout))])
         IN  /\ Faulty(fault # "none")
             /\ st' = [st EXCEPT ![i] =
                          IF fault = "none" THEN Merge(s1, [pc |-> "pushWait"])
                          ELSE Return(s1, [success |-> FALSE,
                                           error |-> "Sync error",
                                           details |-> ErrMessage(fault)],
                                      lfs, rfs, rdirs)]
    /\ UNCHANGED <<env, lfs, rfs, rdirs, now, edits, syncs>>

(* syncCmd runs; await waitForProcess(proc, 30000).  The && chain stops    *)
(* after n steps: n = 4 wrote the marker at second t, otherwise step n + 1 *)
(* exited non-zero or was cut off by the timeout.                          *)
PushWait(i) ==
    /\ st[i].pc = "pushWait"
    /\ \E n \in 0..4, timedOut \in BOOLEAN, t \in {now, now + 1} :
         /\ n < 4 => t = now
         /\ t <= MaxClock
         /\ Faulty(timedOut \/ n < 4)
         /\ now' = t
         /\ rfs' = PushEffect(lfs, rfs, n, t)
         /\ lfs' = PushLocal(lfs, rfs, n)
         /\ rdirs' = PushDirs(rdirs, n)
         /\ LET s1 == Merge(st[i],
                         [pushSteps |-> n,
                          wrote |-> IF n = 4 THEN t ELSE -1,
                          pushLogs |-> [stdout |-> "",
                                        stderr |-> IF n < 4 THEN "rsync error"
                                                   ELSE ""]])
            IN  st' = [st EXCEPT ![i] =
                          IF WaitRaises(timedOut, n < 4)
                          THEN Return(s1, [success |-> FALSE,
                                           error |-> "Sync error",
                                           details |-> ErrMessage("wait")],
                                      lfs', rfs', rdirs')
                          ELSE Merge(s1, [pc |-> "confirm",
                                          pushAwaited |-> TRUE])]
    /\ UNCHANGED <<env, edits, syncs>>

(* cat <mount>/.last-sync, then the decision on the marker read; in the    *)
(* failure branch proc.getLogs() may raise as well ("proclogs").           *)
Confirm(i) ==
    /\ st[i].pc = "confirm"
    /\ \E fault \in ProbeFaults \cup {"proclogs"} :
         LET lastSync == Trim(CatStdout(rfs, R2_MARKER))
             s1 == Merge(st[i],
                      [cmds |-> Append(st[i].cmds, Cmd("confirm", ProbeTimeout)),
                       confirmRead |-> fault \in {"none", "proclogs"},
                       markerSeen |-> [exists |-> Exists(rfs, R2_MARKER),
                                       data |-> CatStdout(rfs, R2_MARKER)]])
         IN  /\ fault = "proclogs" => ~MarkerConfirms(lastSync)
             /\ Faulty(fault # "none")
             /\ st' = [st EXCEPT ![i] =
                          IF fault # "none"
                          THEN Return(s1, [success |-> FALSE,
                                           error |-> "Sync error",
                                           details |-> ErrMessage(
                                               IF fault = "proclogs" THEN "logs"
                                               ELSE fault)],
                                      lfs, rfs, rdirs)
                          ELSE IF MarkerConfirms(lastSync)
                          THEN Return(s1, [success |-> TRUE, lastSync |-> lastSync],
                                      lfs, rfs, rdirs)
                          ELSE Return(s1, [success |-> FALSE,
                                           error |-> "Sync failed",
                                           details |-> FailureDetails(s1.pushLogs)],
                                      lfs, rfs, rdirs)]
    /\ UNCHANGED <<env, lfs, rfs, rdirs, now, edits, syncs>>

(* Between invocations the bot running in the container rewrites its      *)
(* user profile                                                            *)
LocalEdit ==
    /\ \A i \in Procs : Quiet(i)
    /\ syncs > 0
    /\ edits < MaxEdits
    /\ edits' = edits + 1
    /\ lfs' = [q \in DOMAIN lfs \cup {LOCAL_USER} |->
                  IF q = LOCAL_USER THEN EditedData ELSE lfs[q]]
    /\ UNCHANGED <<env, rfs, rdirs, now, syncs, faults, st>>

Step(i) ==
    \/ Start(i)
    \/ Mount(i)
    \/ ProbeR2(i)
    \/ ProbeLocal(i)
    \/ ProbeUser(i)
    \/ ProbeSoul(i)
    \/ ProbeMemory(i)
    \/ RestoreStart(i)
    \/ RestoreWait(i)
    \/ Guard(i)
    \/ PushStart(i)
    \/ PushWait(i)
    \/ Confirm(i)

(* The caller serializes invocations: one invocation at a time *)
Next == Step(1) \/ LocalEdit

Spec == Init /\ [][Next]_vars

(* Runs for the mirror claims: complete credentials, and a remote store    *)
(* holding any subset of the three directories.  The operator's console    *)
(* uploads and deletes objects under any prefix (uploadR2Object,           *)
(* deleteR2Object), so the store also holds files no push has written,     *)
(* some of them on paths the mirrors exclude, and may have lost its marker.*)
StaleData == <<"S">>

RichBackup ==
    [p \in DOMAIN FullBackup \cup
           {<<"clawdbot", "gateway.log">>, <<"workspace-core", ".git", "HEAD">>,
            <<"workspace-core", "skills", "tool.md">>,
            <<"workspace-core", "node_modules", "dep.js">>} |->
        IF p \in DOMAIN FullBackup THEN RemoteData ELSE StaleData]

InitMirrorRemote ==
    { [fs |-> NoFiles, dirs |-> {}], [fs |-> RichBackup, dirs |-> AllDirs] }
    \cup { [fs |-> WithMarker(Restrict(RichBackup,
                       {p \in DOMAIN RichBackup : p[1] \in D}), Timestamp(0)),
            dirs |-> D] : D \in SUBSET AllDirs }

InitMirrorLocal ==
    {Restrict(FullLocal, DOMAIN FullLocal \ m) :
        m \in { {}, {LOCAL_MARKER}, {LOCAL_USER} }}

InitMirror ==
    /\ env = [f \in CredFields |-> "key"]
    /\ lfs \in InitMirrorLocal
    /\ \E r \in InitMirrorRemote : rfs = r.fs /\ rdirs = r.dirs
    /\ now = 1
    /\ edits = 0
    /\ syncs = 0
    /\ faults = 0
    /\ st = [i \in Procs |-> IdleState]

SpecMirror == InitMirror /\ [][Next]_vars

(* Runs for the termination claim.  An invocation that has been entered    *)
(* and has not returned is suspended at an await; the runtime resumes it   *)
(* when the awaited call settles, and every awaited call settles: the      *)
(* mount provider returns or rejects and every wait returns or raises      *)
(* within its timeout.                                                     *)
Resume(i) == ~Quiet(i) /\ Step(i)

InitLive ==
    /\ env = [f \in CredFields |-> "key"]
    /\ \/ /\ lfs = FullLocal
          /\ rfs = NoFiles
          /\ rdirs = {}
       \/ /\ lfs = Restrict(FullLocal, DOMAIN FullLocal \ {LOCAL_MEMORY})
          /\ rfs = WithMarker(FullBackup, Timestamp(0))
          /\ rdirs = AllDirs
    /\ now = 1
    /\ edits = 0
    /\ syncs = 0
    /\ faults = 0
    /\ st = [i \in Procs |-> IdleState]

NextLive == Step(1)

SpecLive == InitLive /\ [][NextLive]_vars /\ WF_vars(Resume(1))

(* Runs with two callers.  syncToR2 keeps no state between calls and takes *)
(* no lock, and the console's button is disabled in its own page only, so  *)
(* a second request (another page, another operator) enters while the      *)
(* first is suspended at an await; both act on the one container and the   *)
(* one mount.  The store holds a backup, complete or one whose clawdbot/   *)
(* has lost its config file (deleteR2Object).                              *)
InitRace ==
    /\ env = [f \in CredFields |-> "key"]
    /\ lfs = FullLocal
    /\ rfs \in {WithMarker(FullBackup, Timestamp(0)),
                WithMarker(Restrict(FullBackup,
                    DOMAIN FullBackup \ {<<"clawdbot", "clawdbot.json">>}),
                    Timestamp(0))}
    /\ rdirs = AllDirs
    /\ now = 1
    /\ edits = 0
    /\ syncs = 0
    /\ faults = 0
    /\ st = [i \in Procs |-> IdleState]

(* Each caller makes one request; the second request enters while the     *)
(* first invocation is running                                             *)
Enter(i) ==
    /\ st[i].pc = "idle"
    /\ \A j \in Procs : j < i => ~Quiet(j)
    /\ Start(i)

NextRace == Enter(1) \/ Resume(1) \/ Enter(2) \/ Resume(2)

SpecRace == InitRace /\ [][NextRace]_vars

TypeOK ==
    /\ syncs \in 0..MaxSyncs
    /\ edits \in 0..MaxEdits
    /\ now \in 0..MaxClock
    /\ faults \in 0..MaxFaults
    /\ rdirs \subseteq AllDirs
    /\ \A i \in Procs : DOMAIN st[i] = DOMAIN IdleState

-----------------------------------------------------------------------------
(* Properties of a single, serialized invocation *)

Started(s, name) == \E k \in 1..Len(s.cmds) : s.cmds[k].cmd = name

Position(s, name) == CHOOSE k \in 1..Len(s.cmds) : s.cmds[k].cmd = name

MarkerOf(fs) == [exists |-> Exists(fs, R2_MARKER), data |-> CatStdout(fs, R2_MARKER)]

(* C1: push safety.  If the local config file clawdbot.json does not exist *)
(* when the integrity guard runs, the push command is never started and    *)
(* the invocation has returned a failure, whether or not a restore ran.    *)
C1_PushSafety ==
    \A i \in Procs :
        st[i].guardSaw = "missing" =>
            /\ ~Started(st[i], "push")
            /\ st[i].pc = "done"
            /\ st[i].result.success = FALSE

(* The guard found the config file missing after a restore that ran to its end *)
C1_Witness ==
    /\ st[1].guardSaw = "missing"
    /\ Started(st[1], "restore")
    /\ st[1].restoreSteps = 4

(* C2: restore trigger.  Once the five probes are done, the restore        *)
(* command has been started if and only if the remote-marker probe         *)
(* returned true and at least one of the four local probes returned        *)
(* false; and when both restore and push are started, the restore was      *)
(* started first and its wait had returned before the push was started.    *)
C2_RestoreTrigger ==
    \A i \in Procs :
        LET s == st[i]
        IN  /\ (\/ s.pc \in {"restoreWait", "guard", "push", "pushWait", "confirm"}
                \/ s.pc = "done" /\ Len(s.cmds) >= 5)
                 => (Started(s, "restore") <=>
                        (s.r2HasSync /\ ~(s.localHasSync /\ s.localHasUser
                                          /\ s.localHasSoul /\ s.localHasMemory)))
            /\ (Started(s, "push") /\ Started(s, "restore"))
                 => (s.restoreAwaited /\ Position(s, "restore") < Position(s, "push"))

(* Only the MEMORY.md probe was false, the restore ran and the push followed *)
C2_Witness ==
    /\ Started(st[1], "restore")
    /\ Started(st[1], "push")
    /\ st[1].localHasSync /\ st[1].localHasUser /\ st[1].localHasSoul
    /\ ~st[1].localHasMemory

(* C3: core consistency rule on the real filesystem.  Whenever the remote  *)
(* store really held a marker and the local side really lacked its marker  *)
(* or one of USER.md, SOUL.md, MEMORY.md when they were probed, the push   *)
(* is started only after a restore was awaited in that invocation.         *)
C3_CoreConsistency ==
    \A i \in Procs :
        LET s == st[i]
        IN  (/\ Started(s, "push")
             /\ s.truth.r2
             /\ ~(s.truth.local /\ s.truth.user /\ s.truth.soul /\ s.truth.memory))
                => s.restoreAwaited

(* C4: restore is fail-hard.  Whenever the restore command failed (it did  *)
(* not start, a step exited with an error, or the timeout expired), the    *)
(* invocation has returned 'Restore failed' with details and neither the   *)
(* guard nor the push was started.                                         *)
C4_RestoreFailHard ==
    \A i \in Procs :
        LET s == st[i]
        IN  (Started(s, "restore") /\ s.pc # "restoreWait" /\ s.restoreSteps < 4)
                => /\ s.pc = "done"
                   /\ s.result.success = FALSE
                   /\ s.result.error = "Restore failed"
                   /\ "details" \in DOMAIN s.result
                   /\ ~Started(s, "guard")
                   /\ ~Started(s, "push")

(* C5: confirmation decoupling.  After a push whose wait returned without  *)
(* error, a marker re-read as absent, empty or not date-prefixed gives     *)
(* success = false, and success = true is returned only when the marker    *)
(* was read and starts with dddd-dd-dd.                                    *)
BadMarker(m) == ~m.exists \/ m.data = <<>> \/ ~MatchesDatePrefix(Trim(m.data))

C5_ConfirmationDecoupling ==
    \A i \in Procs :
        LET s == st[i]
        IN  (s.pc = "done" /\ s.pushAwaited)
                => /\ (s.confirmRead /\ BadMarker(s.markerSeen))
                          => s.result.success = FALSE
                   /\ s.result.success = TRUE
                          => (s.confirmRead /\ ~BadMarker(s.markerSeen))

(* The push was awaited and the marker file read back exists but is not a date *)
C5_Witness ==
    /\ st[1].pc = "done"
    /\ st[1].pushAwaited
    /\ st[1].confirmRead
    /\ st[1].markerSeen.exists
    /\ BadMarker(st[1].markerSeen)
    /\ st[1].result.success = FALSE

(* C6: syncToR2 never throws.  Whatever the collaborators do, raising      *)
(* included, no invocation ends with an error propagating to the caller.   *)
C6_NeverThrows == \A i \in Procs : st[i].pc # "threw"

(* C7: credential gate.  When one of the three credential fields is        *)
(* missing, every invocation returns {success: false, error: 'R2 storage   *)
(* is not configured'}, the mount provider is not called, no command is    *)
(* started, and local and remote state at return are those at entry.       *)
C7_CredentialGate ==
    (\E f \in CredFields : env[f] \in {"undefined", ""}) =>
        \A i \in Procs :
            LET s == st[i]
            IN  s.pc # "idle" =>
                    /\ s.pc = "done"
                    /\ s.result = [success |-> FALSE,
                                   error |-> "R2 storage is not configured"]
                    /\ ~s.mountCalled
                    /\ s.cmds = <<>>
                    /\ s.lfs1 = s.lfs0
                    /\ s.rfs1 = s.rfs0
                    /\ s.rdirs1 = s.rdirs0

(* An invocation returned with only the account identifier missing *)
C7_Witness ==
    /\ env["CF_ACCOUNT_ID"] = ""
    /\ env["R2_ACCESS_KEY_ID"] = "key"
    /\ env["R2_SECRET_ACCESS_KEY"] = "key"
    /\ st[1].pc = "done"

(* C8: mount failure.  When the mount provider returned false, the result  *)
(* is exactly {success: false, error: 'Failed to mount R2 storage'}, with  *)
(* no lastSync and no details, and no command was started.                 *)
C8_MountFailure ==
    \A i \in Procs :
        LET s == st[i]
        IN  s.mountResult = "false" =>
                /\ s.pc = "done"
                /\ s.result = [success |-> FALSE,
                               error |-> "Failed to mount R2 storage"]
                /\ DOMAIN s.result = {"success", "error"}
                /\ s.cmds = <<>>

(* The mount provider was called and returned false *)
C8_Witness == st[1].mountCalled /\ st[1].mountResult = "false"

(* C9: integrity guard.  Every invocation that got past the mount and did  *)
(* not return 'Restore failed' has run the guard; a check that ran without *)
(* reporting the config file gives 'Sync aborted: source missing           *)
(* clawdbot.json', a check that raised gives 'Failed to verify source      *)
(* files', and in both cases the push is not started.                      *)
C9_IntegrityGuard ==
    \A i \in Procs :
        LET s == st[i]
        IN  /\ (\/ s.pc \in {"push", "pushWait", "confirm"}
                \/ /\ s.pc = "done"
                   /\ s.mountResult = "true"
                   /\ (s.result.success \/ s.result.error # "Restore failed"))
                 => Started(s, "guard")
            /\ (Started(s, "guard") /\ s.guardFault = "none" /\ s.guardSaw = "missing")
                 => /\ s.pc = "done"
                    /\ s.result.error = "Sync aborted: source missing clawdbot.json"
                    /\ ~Started(s, "push")
            /\ (Started(s, "guard") /\ s.guardFault # "none")
                 => /\ s.pc = "done"
                    /\ s.result.error = "Failed to verify source files"
                    /\ ~Started(s, "push")

(* The check command raised although the config file was there, after a restore *)
C9_Witness ==
    /\ Started(st[1], "restore")
    /\ Started(st[1], "guard")
    /\ st[1].guardFault # "none"
    /\ st[1].guardSaw = "present"

(* C10: the remote marker is written only after a successful push.  In     *)
(* every invocation the remote marker differs from what it was at entry    *)
(* only if the three local-to-remote mirrors of that invocation succeeded, *)
(* and it then holds the timestamp of the moment it was written.           *)
C10_MarkerAfterPush ==
    \A i \in Procs :
        LET s == st[i]
        IN  (s.pc # "idle" /\ MarkerOf(rfs) # MarkerOf(s.rfs0))
                => /\ s.pushSteps = 4
                   /\ s.wrote = now
                   /\ rfs[R2_MARKER] = Timestamp(now)

(* A push replaced an earlier marker *)
C10_Witness ==
    /\ st[1].pc = "done"
    /\ MarkerOf(st[1].rfs0).exists
    /\ MarkerOf(rfs) # MarkerOf(st[1].rfs0)
    /\ st[1].pushSteps = 4

-----------------------------------------------------------------------------
(* Properties of consecutive invocations and of the two mirrors *)

(* The filesystems as the invocation s left them *)
LocalNow(s) == IF s.pc = "done" THEN s.lfs1 ELSE lfs

RemoteNow(s) == IF s.pc = "done" THEN s.rfs1 ELSE rfs

ErrorOf(s) == IF "error" \in DOMAIN s.result THEN s.result.error ELSE ""

(* A tree without the marker file .last-sync at its root *)
NotMarker(t) == Restrict(t, {r \in DOMAIN t : r # <<".last-sync">>})

(* A tree without the files named *.lock, *.log or *.tmp *)
NoScratch(t) ==
    Restrict(t, {r \in DOMAIN t : FileExt(r[Len(r)]) \notin {"lock", "log", "tmp"}})

(* A tree without its top-level skills directory *)
NotSkills(t) == Restrict(t, {r \in DOMAIN t : ~(Len(r) >= 2 /\ r[1] = "skills")})

(* A tree without its top-level .git, skills and node_modules directories *)
WorkspaceKept(t) ==
    Restrict(t, {r \in DOMAIN t :
                    ~(Len(r) >= 2 /\ r[1] \in {".git", "skills", "node_modules"})})

(* Two consecutive invocations without a fault and without a local edit *)
CleanPair(s) ==
    /\ s.pc = "done"
    /\ s.prev.success
    /\ s.prev.clean
    /\ s.edits0 = s.prev.edits
    /\ faults = s.faults0

(* An invocation without a fault that got a mount and whose guard found    *)
(* the config file                                                         *)
CleanRun(s) ==
    /\ s.pc = "done"
    /\ s.mountResult = "true"
    /\ s.guardSaw = "present"
    /\ faults = s.faults0

C13_FirstBackup ==
    \A i \in Procs :
        LET s == st[i]
        IN  (s.mountResult = "true" /\ ~Exists(s.rfs0, R2_MARKER)) =>
                /\ s.pc \notin {"restore", "restoreWait"}
                /\ ~Started(s, "restore")
                /\ (s.pc = "done" /\ Exists(s.lfs0, LOCAL_CONFIG) /\ faults = s.faults0)
                      => /\ Started(s, "guard")
                         /\ Started(s, "push")
                         /\ s.wrote >= 0
                         /\ s.result = [success |-> TRUE,
                                        lastSync |-> Trim(Timestamp(s.wrote))]
                         /\ Exists(s.rfs1, R2_MARKER)
                         /\ s.rfs1[R2_MARKER] = Timestamp(s.wrote)

(* A first backup from a local side that has no marker returned *)
C13_Witness ==
    /\ st[1].pc = "done"
    /\ st[1].mountResult = "true"
    /\ st[1].rfs0 = NoFiles
    /\ Exists(st[1].lfs0, LOCAL_CONFIG)
    /\ ~Exists(st[1].lfs0, LOCAL_MARKER)
    /\ faults = st[1].faults0
    /\ st[1].result.success

(* C14: push-phase error taxonomy.  After the push command was started,    *)
(* the result carries 'Sync error' exactly when the push command was not   *)
(* awaited without error, and 'Sync failed' exactly when it was awaited    *)
(* without error and the marker could not be read or is malformed; a       *)
(* confirmation read that raises after a completed push gives 'Sync        *)
(* failed'.                                                                *)
C14_PushErrorTaxonomy ==
    \A i \in Procs :
        LET s == st[i]
        IN  (s.pc = "done" /\ Started(s, "push")) =>
                /\ ErrorOf(s) = "Sync error" <=> ~s.pushAwaited
                /\ ErrorOf(s) = "Sync failed"
                      <=> (s.pushAwaited /\ (~s.confirmRead \/ BadMarker(s.markerSeen)))

(* The markers themselves: presence and content *)
LocalMarkerOf(fs) ==
    [exists |-> Exists(fs, LOCAL_MARKER), data |-> CatStdout(fs, LOCAL_MARKER)]

(* C15 as stated: marker lifecycle.  No step other than the push creates,  *)
(* modifies or deletes the remote marker or the local marker.  Stated for  *)
(* the steps of behaviours in which no collaborator misbehaves.            *)
C15_MarkerLifecycle ==
    [][(/\ faults' = 0
        /\ \/ MarkerOf(rfs') # MarkerOf(rfs)
           \/ LocalMarkerOf(lfs') # LocalMarkerOf(lfs))
           => \E i \in Procs : st[i].pc = "pushWait"]_vars

(* C15 amended: the remote marker is created or modified by the push step  *)
(* only, and no step deletes it; the local marker is created, modified or  *)
(* deleted by the restore step only, the push never touching it; the       *)
(* probes, the guard and the confirmation only read the markers.           *)
C15_MarkerWriters ==
    [][/\ MarkerOf(rfs') # MarkerOf(rfs)
            => /\ \E i \in Procs : st[i].pc = "pushWait"
               /\ Exists(rfs', R2_MARKER)
       /\ LocalMarkerOf(lfs') # LocalMarkerOf(lfs)
            => \E i \in Procs : st[i].pc = "restoreWait"]_vars

(* A restore created the local marker and the push that followed replaced  *)
(* the remote one                                                          *)
C15_Witness ==
    /\ st[1].restoreSteps = 4
    /\ ~Exists(st[1].lfs0, LOCAL_MARKER)
    /\ Exists(lfs, LOCAL_MARKER)
    /\ st[1].pushSteps = 4
    /\ MarkerOf(rfs) # MarkerOf(st[1].rfs0)

(* C16: a success result reflects the invocation's own push.  Whenever an  *)
(* invocation returned success = true, its three local-to-remote mirrors   *)
(* completed and the lastSync returned is the timestamp its own push       *)
(* wrote.                                                                  *)
C16_OwnPush ==
    \A i \in Procs :
        LET s == st[i]
        IN  (s.pc = "done" /\ s.result.success) =>
                /\ s.pushSteps = 4
                /\ s.wrote >= 0
                /\ s.result.lastSync = Trim(Timestamp(s.wrote))

(* C17: a successful sync is followed by a sync that does not restore.     *)
(* When the preceding invocation returned success = true and USER.md,      *)
(* SOUL.md and MEMORY.md exist locally, the invocation does not start the  *)
(* restore command, also when the preceding invocation skipped the         *)
(* restore.  Stated for invocations in which no collaborator misbehaves.   *)
C17_NoRestoreAfterSuccess ==
    \A i \in Procs :
        LET s == st[i]
        IN  (/\ s.prev.success
             /\ s.prev.clean
             /\ Len(s.cmds) >= 5
             /\ s.truth.user /\ s.truth.soul /\ s.truth.memory
             /\ faults = s.faults0)
                => ~Started(s, "restore")

(* C18: restore produces an exact copy.  After a restore that ran to its   *)
(* end, for each remote directory that exists the local target holds       *)
(* exactly the remote files (the marker file of the config directory and   *)
(* the excluded directories of the workspace apart), and the local marker  *)
(* has the content of the remote marker.                                   *)
C18_RestoreExactCopy ==
    \A i \in Procs :
        LET s == st[i]
            X == LocalNow(s)
            R == s.rfs0
        IN  s.restoreSteps = 4 =>
                /\ "clawdbot" \in s.rdirs0 =>
                      NotMarker(Tree(X, CONFIG_DIR)) = NotMarker(Tree(R, R2_CONFIG_DIR))
                /\ "skills" \in s.rdirs0 =>
                      Tree(X, SKILLS_DIR) = Tree(R, R2_SKILLS_DIR)
                /\ "workspace-core" \in s.rdirs0 =>
                      WorkspaceKept(Tree(X, WORKSPACE_DIR))
                          = WorkspaceKept(Tree(R, R2_WORKSPACE_DIR))
                /\ Exists(X, LOCAL_MARKER)
                /\ X[LOCAL_MARKER] = R[R2_MARKER]

(* A restore from a complete remote store replaced a USER.md edited since  *)
(* the preceding sync                                                      *)
C18_Witness ==
    /\ st[1].restoreSteps = 4
    /\ st[1].rdirs0 = AllDirs
    /\ Exists(st[1].lfs0, LOCAL_USER)
    /\ st[1].lfs0[LOCAL_USER] = EditedData
    /\ LocalNow(st[1])[LOCAL_USER] # EditedData

(* After the three mirrors of the push have succeeded *)
Pushed(s) == Started(s, "push") /\ s.pc \in {"confirm", "done"} /\ s.pushSteps >= 3

(* C19 as stated: push mirrors with delete-extraneous semantics.  After a  *)
(* push whose three mirrors succeeded, remote clawdbot/ equals the local   *)
(* config directory without its *.lock, *.log and *.tmp files, remote      *)
(* skills/ equals the local skills directory, and remote workspace-core/   *)
(* equals the local workspace outside .git, skills and node_modules.       *)
(* Stated for invocations in which no collaborator misbehaves.             *)
C19_PushMirrors ==
    \A i \in Procs :
        LET s == st[i]
            L == LocalNow(s)
            R == RemoteNow(s)
        IN  (Pushed(s) /\ faults = s.faults0) =>
                /\ Tree(R, R2_CONFIG_DIR) = NoScratch(Tree(L, CONFIG_DIR))
                /\ Tree(R, R2_SKILLS_DIR) = Tree(L, SKILLS_DIR)
                /\ Tree(R, R2_WORKSPACE_DIR) = WorkspaceKept(Tree(L, WORKSPACE_DIR))

(* C19 amended: the equalities hold on the paths the mirrors do not        *)
(* exclude; remote files on excluded paths are not removed.                *)
C19_PushMirrorsKept ==
    \A i \in Procs :
        LET s == st[i]
            L == LocalNow(s)
            R == RemoteNow(s)
        IN  Pushed(s) =>
                /\ NoScratch(Tree(R, R2_CONFIG_DIR)) = NoScratch(Tree(L, CONFIG_DIR))
                /\ Tree(R, R2_SKILLS_DIR) = Tree(L, SKILLS_DIR)
                /\ WorkspaceKept(Tree(R, R2_WORKSPACE_DIR))
                       = WorkspaceKept(Tree(L, WORKSPACE_DIR))

(* A push removed a remote USER.md that has no local counterpart and left  *)
(* a remote log file in place                                              *)
C19_Witness ==
    /\ st[1].pushSteps = 4
    /\ Exists(st[1].rfs0, <<"workspace-core", "USER.md">>)
    /\ ~Exists(LocalNow(st[1]), LOCAL_USER)
    /\ ~Exists(RemoteNow(st[1]), <<"workspace-core", "USER.md">>)
    /\ Exists(RemoteNow(st[1]), <<"clawdbot", "gateway.log">>)

(* A restore that ran to its end on a local side without marker, after     *)
(* the preceding invocation pushed the local state s.prev.lfs              *)
RoundTrip(s) ==
    /\ s.prev.success
    /\ s.prev.pushSteps = 4
    /\ s.restoreSteps = 4
    /\ ~Exists(s.lfs0, LOCAL_MARKER)

(* C20 as stated: backup round trip.  After a push from local state L and  *)
(* a restore onto a local side without marker, the config directory is     *)
(* L's without its *.lock, *.log and *.tmp files (the marker file apart),  *)
(* the skills directory is L's, and the workspace is L's outside .git,     *)
(* skills and node_modules.  Stated for pairs of invocations in which no   *)
(* collaborator misbehaves.                                                *)
C20_RoundTrip ==
    \A i \in Procs :
        LET s == st[i]
            X == LocalNow(s)
            L == s.prev.lfs
        IN  (RoundTrip(s) /\ s.prev.clean /\ faults = s.faults0) =>
                /\ NotMarker(Tree(X, CONFIG_DIR))
                       = NotMarker(NoScratch(Tree(L, CONFIG_DIR)))
                /\ Tree(X, SKILLS_DIR) = Tree(L, SKILLS_DIR)
                /\ WorkspaceKept(Tree(X, WORKSPACE_DIR))
                       = WorkspaceKept(Tree(L, WORKSPACE_DIR))

(* C20 amended: the restored config directory equals L's on the files not  *)
(* named *.lock, *.log or *.tmp (the marker file apart); files of those    *)
(* names that the remote store already held come back with the restore.    *)
C20_RoundTripKept ==
    \A i \in Procs :
        LET s == st[i]
            X == LocalNow(s)
            L == s.prev.lfs
        IN  RoundTrip(s) =>
                /\ NotMarker(NoScratch(Tree(X, CONFIG_DIR)))
                       = NotMarker(NoScratch(Tree(L, CONFIG_DIR)))
                /\ Tree(X, SKILLS_DIR) = Tree(L, SKILLS_DIR)
                /\ WorkspaceKept(Tree(X, WORKSPACE_DIR))
                       = WorkspaceKept(Tree(L, WORKSPACE_DIR))

(* The round trip undid an edit of USER.md made after the push *)
C20_Witness ==
    /\ RoundTrip(st[1])
    /\ Exists(st[1].lfs0, LOCAL_USER)
    /\ st[1].lfs0[LOCAL_USER] = EditedData
    /\ LocalNow(st[1])[LOCAL_USER] = LocalData

-----------------------------------------------------------------------------
(* Properties of the frame, the order and the outcome of an invocation *)

(* The files of a tree under its top-level .git, skills and node_modules   *)
(* directories                                                             *)
WorkspaceFramed(t) ==
    Restrict(t, {r \in DOMAIN t :
                    Len(r) >= 2 /\ r[1] \in {".git", "skills", "node_modules"}})

(* C21: the exclusions of the workspace mirror are a frame.  In restore    *)
(* and in push the workspace mirror creates, modifies and deletes nothing  *)
(* under the top-level .git, skills and node_modules of its destination:   *)
(* after a restore /root/clawd/skills is what the skills mirror made of it *)
(* (remote skills/ when that mirror ran, the former local directory        *)
(* otherwise), local .git and node_modules are what they were at entry,    *)
(* and the three subtrees of remote workspace-core/ are at any moment what *)
(* they were at entry.                                                     *)
C21_WorkspaceFrame ==
    \A i \in Procs :
        LET s == st[i]
            l == LocalNow(s)
            r == RemoteNow(s)
        IN  s.pc \notin {"idle", "threw"} =>
              /\ Tree(l, WORKSPACE_DIR \o <<".git">>)
                    = Tree(s.lfs0, WORKSPACE_DIR \o <<".git">>)
              /\ Tree(l, WORKSPACE_DIR \o <<"node_modules">>)
                    = Tree(s.lfs0, WORKSPACE_DIR \o <<"node_modules">>)
              /\ Tree(l, SKILLS_DIR)
                    = IF "skills" \in s.mirrored
                      THEN Tree(s.rfs0, R2_SKILLS_DIR)
                      ELSE Tree(s.lfs0, SKILLS_DIR)
              /\ WorkspaceFramed(Tree(r, R2_WORKSPACE_DIR))
                    = WorkspaceFramed(Tree(s.rfs0, R2_WORKSPACE_DIR))

(* A complete restore from a store whose workspace-core/ holds files under *)
(* skills/, .git/ and node_modules/, followed by a complete push           *)
C21_Witness ==
    /\ st[1].pc = "done"
    /\ st[1].restoreSteps = 4
    /\ st[1].mirrored = AllDirs
    /\ st[1].pushSteps = 4
    /\ <<"workspace-core", "skills", "tool.md">> \in DOMAIN st[1].rfs0
    /\ <<"workspace-core", ".git", "HEAD">> \in DOMAIN st[1].rfs0
    /\ LOCAL_GIT \in DOMAIN st[1].lfs1
    /\ LOCAL_SKILL \in DOMAIN st[1].lfs1

(* The five flags of the invocation s, by probe *)
ProbeFlags(s) ==
    [r2 |-> s.r2HasSync, local |-> s.localHasSync, user |-> s.localHasUser,
     soul |-> s.localHasSoul, memory |-> s.localHasMemory]

ProbeOrder == <<"r2", "local", "user", "soul", "memory">>

ProbePcs == {"probeR2", "probeLocal", "probeUser", "probeSoul", "probeMemory"}

(* C22: the probes are fail-soft and isolated.  A flag is true only if the *)
(* file existed when its probe ran; the flags that differ from what        *)
(* existed are at most as many as the calls that raised or timed out in    *)
(* the invocation, so a probe that fails yields false for itself and       *)
(* changes no other flag; in every invocation that got a mount all five    *)
(* probes are run, in their order, and the invocation returns only from a  *)
(* later step.                                                             *)
C22_ProbesFailSoft ==
    \A i \in Procs :
        LET s == st[i]
            flags == ProbeFlags(s)
            wrong == {p \in DOMAIN flags : flags[p] # s.truth[p]}
        IN  /\ \A p \in DOMAIN flags : flags[p] => s.truth[p]
            /\ Cardinality(wrong) <= faults - s.faults0
            /\ (s.mountResult = "true" /\ s.pc \notin ProbePcs) =>
                  /\ Len(s.cmds) >= 5
                  /\ \A k \in 1..5 : s.cmds[k] = Cmd(ProbeOrder[k], 5000)
            /\ (s.mountResult = "true" /\ s.pc = "done") => Len(s.cmds) >= 6

(* The probe of USER.md failed on a file that exists, every other flag is  *)
(* what existed, and the invocation went on to a successful push           *)
C22_Witness ==
    /\ st[1].pc = "done"
    /\ st[1].result.success
    /\ st[1].truth.user /\ ~st[1].localHasUser
    /\ st[1].r2HasSync = st[1].truth.r2 /\ st[1].r2HasSync
    /\ st[1].localHasSync = st[1].truth.local /\ st[1].localHasSync
    /\ st[1].localHasSoul = st[1].truth.soul /\ st[1].localHasSoul
    /\ st[1].localHasMemory = st[1].truth.memory /\ st[1].localHasMemory

(* The results returned before the push is started *)
EarlyErrors ==
    {"R2 storage is not configured", "Failed to mount R2 storage",
     "Restore failed", "Sync aborted: source missing clawdbot.json",
     "Failed to verify source files"}

(* C23: the remote store is untouched unless the push starts.  An          *)
(* invocation that returns 'R2 storage is not configured', 'Failed to      *)
(* mount R2 storage', 'Restore failed', 'Sync aborted: source missing      *)
(* clawdbot.json' or 'Failed to verify source files' has not started the   *)
(* push, and the remote directories clawdbot/, skills/, workspace-core/    *)
(* and the remote marker are at its return what they were at its entry;    *)
(* so they are at every moment before the push is started.                 *)
C23_RemoteUntouched ==
    \A i \in Procs :
        LET s == st[i]
        IN  /\ (s.pc = "done" /\ ErrorOf(s) \in EarlyErrors) =>
                  /\ ~Started(s, "push")
                  /\ s.rfs1 = s.rfs0
                  /\ s.rdirs1 = s.rdirs0
            /\ (s.pc \notin {"idle", "done", "threw"} /\ ~Started(s, "push")) =>
                  /\ rfs = s.rfs0
                  /\ rdirs = s.rdirs0

(* A restore that mirrored the config directory and then timed out: the    *)
(* invocation returns 'Restore failed' over a store that holds a backup    *)
C23_Witness ==
    /\ st[1].pc = "done"
    /\ ErrorOf(st[1]) = "Restore failed"
    /\ "clawdbot" \in st[1].mirrored
    /\ st[1].lfs1 # st[1].lfs0
    /\ Exists(st[1].rfs1, R2_MARKER)
    /\ Exists(st[1].rfs1, <<"clawdbot", "clawdbot.json">>)

(* C24: an invocation that does not start the restore command never        *)
(* modifies the local filesystem.  The local config directory, skills      *)
(* directory, workspace and local marker are, at every moment of such an   *)
(* invocation and at its return, what they were at its entry, whatever     *)
(* result it returns.                                                      *)
C24_LocalUntouched ==
    \A i \in Procs :
        LET s == st[i]
        IN  (s.pc \notin {"idle", "threw"} /\ ~Started(s, "restore")) =>
                LocalNow(s) = s.lfs0

(* A complete push without a restore, from a container that holds files    *)
(* in all three directories                                                *)
C24_Witness ==
    /\ st[1].pc = "done"
    /\ st[1].result.success
    /\ ~Started(st[1], "restore")
    /\ st[1].pushSteps = 4
    /\ {LOCAL_CONFIG, LOCAL_SKILL, LOCAL_USER} \subseteq DOMAIN st[1].lfs1
    /\ st[1].rfs1 # st[1].rfs0

(* C25: once the remote marker exists it persists.  Over any sequence of   *)
(* serialized invocations, successful or failed, no step takes the remote  *)
(* marker <mount>/.last-sync away: the delete-extraneous mirrors of the    *)
(* push reach clawdbot/, skills/ and workspace-core/ only, never the root  *)
(* of the mount.                                                           *)
C25_MarkerPersists ==
    [][Exists(rfs, R2_MARKER) => Exists(rfs', R2_MARKER)]_vars

(* A push over a store with a marker whose mirrors deleted a remote file   *)
(* that had no local counterpart                                           *)
C25_Witness ==
    /\ st[1].pc = "done"
    /\ Exists(st[1].rfs0, R2_MARKER)
    /\ st[1].pushSteps >= 3
    /\ \E q \in DOMAIN st[1].rfs0 : q \notin DOMAIN st[1].rfs1
    /\ Exists(st[1].rfs1, R2_MARKER)

(* The commands of an invocation, in the order of the code *)
StepOrder ==
    <<"r2", "local", "user", "soul", "memory", "restore", "guard", "push",
      "confirm">>

Rank(name) == CHOOSE k \in 1..Len(StepOrder) : StepOrder[k] = name

(* C26: strict sequential order without retry.  Within one invocation the  *)
(* steps occur in the order credential check, mount, remote-marker probe,  *)
(* local-marker probe, USER, SOUL and MEMORY probes, optional restore,     *)
(* integrity guard, push, confirmation read: the commands started are      *)
(* these nine, each at most once, in this order and without a gap other    *)
(* than a skipped restore; no command is started before the credentials    *)
(* were found complete and the mount returned true; the restore and the    *)
(* push have been awaited when the command after them is started.          *)
C26_SequentialOrder ==
    \A i \in Procs :
        LET s == st[i]
            c == s.cmds
        IN  /\ \A k \in 1..Len(c) :
                  /\ \E r \in 1..Len(StepOrder) : StepOrder[r] = c[k].cmd
                  /\ Rank(c[k].cmd) \in {k, k + 1}
                  /\ Rank(c[k].cmd) = k + 1 => k >= 6
            /\ \A j, k \in 1..Len(c) : j < k => Rank(c[j].cmd) < Rank(c[k].cmd)
            /\ s.mountCalled => ~CredentialsMissing(env)
            /\ c # <<>> => (s.mountCalled /\ s.mountResult = "true")
            /\ s.pc = "restoreWait" => c[Len(c)].cmd = "restore"
            /\ s.pc = "pushWait" => c[Len(c)].cmd = "push"
            /\ (Started(s, "restore") /\ Started(s, "guard")) => s.restoreAwaited
            /\ Started(s, "confirm") => s.pushAwaited

(* An invocation that ran all nine commands and returned success *)
C26_Witness ==
    /\ st[1].pc = "done"
    /\ st[1].result.success
    /\ Len(st[1].cmds) = 9
    /\ \A k \in 1..9 : st[1].cmds[k].cmd = StepOrder[k]

(* The calls that can raise at a step: startProcess, waitForProcess (the   *)
(* timeout) and getLogs                                                    *)
Raises == {"start", "wait", "logs"}

(* The result of the catch clause of each step after the probes *)
ErrorAt(name) ==
    CASE name = "restore" -> "Restore failed"
      [] name = "guard" -> "Failed to verify source files"
      [] name \in {"push", "confirm"} -> "Sync error"
      [] OTHER -> ""

LastCmd(s) == s.cmds[Len(s.cmds)].cmd

-----------------------------------------------------------------------------
(* Properties of concurrent invocations *)

(* The positions at which a mirror command, restoreCmd or syncCmd, runs *)
MirrorPcs == {"restoreWait", "pushWait"}

(* C29: no internal isolation between invocations.  Nothing in the engine  *)
(* keeps the steps of two invocations on one sandbox apart: syncToR2 can   *)
(* be entered whatever another invocation is doing, and an invocation that *)
(* has come to its restore or to its push can start the command whatever   *)
(* the other one is doing.  The                                            *)
(* guarantees of a single invocation hold for the invocations that no      *)
(* other invocation overlapped: the push runs on a local tree that holds   *)
(* clawdbot.json, and no other mirror command runs during its restore or   *)
(* its push.                                                               *)
C29_NoIsolation ==
    \A i \in Procs :
        LET s == st[i]
        IN  /\ (s.pc \in {"idle", "done", "threw"} /\ syncs < MaxSyncs) =>
                  ENABLED Start(i)
            /\ s.pc = "restore" => ENABLED RestoreStart(i)
            /\ s.pc = "push" => ENABLED PushStart(i)
            /\ ~s.overlapped =>
                  /\ s.pc = "pushWait" => Exists(lfs, LOCAL_CONFIG)
                  /\ \A j \in Procs \ {i} :
                        ~(s.pc \in MirrorPcs /\ st[j].pc \in MirrorPcs)

(* Both invocations are executing a mirror command at once: the push of    *)
(* the first, started after its guard found clawdbot.json, and the restore *)
(* of the second, which is about to mirror a remote clawdbot/ without that *)
(* file over the local config directory                                    *)
C29_Witness ==
    /\ st[1].pc = "pushWait"
    /\ st[1].guardSaw = "present"
    /\ st[2].pc = "restoreWait"
    /\ Exists(lfs, LOCAL_CONFIG)
    /\ "clawdbot" \in rdirs
    /\ ~Exists(rfs, <<"clawdbot", "clawdbot.json">>)

(* The push of an invocation whose guard found clawdbot.json runs on a     *)
(* local tree from which the restore of the other invocation has removed   *)
(* it                                                                      *)
C29_PushAfterRestore ==
    /\ st[1].pc = "pushWait"
    /\ st[1].guardSaw = "present"
    /\ Started(st[2], "restore")
    /\ "clawdbot" \in st[2].mirrored
    /\ ~Exists(lfs, LOCAL_CONFIG)

-----------------------------------------------------------------------------
(* Properties of the returned result *)

(* The text x starts with YYYY-MM-DD *)
StartsWithDate(x) ==
    /\ Len(x) >= 10
    /\ \A k \in 1..10 :
          IF k \in {5, 8} THEN x[k] = "-"
          ELSE x[k] \in {"0", "1", "2", "3", "4", "5", "6", "7", "8", "9"}

SyncErrors ==
    {"R2 storage is not configured", "Failed to mount R2 storage",
     "Restore failed", "Sync aborted: source missing clawdbot.json",
     "Failed to verify source files", "Sync failed", "Sync error"}

(* C30: the shape of the result.  Every SyncResult returned has success;   *)
(* success is true if and only if lastSync is present, and then lastSync   *)
(* starts with YYYY-MM-DD and error and details are absent; when success   *)
(* is false lastSync is absent, error is one of the seven messages, and    *)
(* details is absent for 'R2 storage is not configured' and 'Failed to     *)
(* mount R2 storage' and present for the other five.                       *)
C30_ResultShape ==
    \A i \in Procs :
        LET s == st[i]
            res == s.result
            D == DOMAIN res
        IN  s.pc = "done" =>
              /\ "success" \in D
              /\ res.success \in BOOLEAN
              /\ res.success <=> "lastSync" \in D
              /\ res.success =>
                    /\ D = {"success", "lastSync"}
                    /\ StartsWithDate(res.lastSync)
              /\ ~res.success =>
                    /\ "error" \in D
                    /\ res.error \in SyncErrors
                    /\ D \subseteq {"success", "error", "details"}
                    /\ "details" \in D <=>
                          res.error \notin {"R2 storage is not configured",
                                            "Failed to mount R2 storage"}

(* 'Sync failed' returned over a marker that is not a timestamp, with the  *)
(* logs of the push as details                                             *)
C30_Witness ==
    /\ st[1].pc = "done"
    /\ st[1].result = [success |-> FALSE, error |-> "Sync failed",
                       details |-> "rsync error"]
    /\ st[1].markerSeen.exists
    /\ ~StartsWithDate(st[1].markerSeen.data)

====
